---- MODULE Spec2Model ----
(***************************************************************************)
(* The price tracker's single-page front end (frontend/src/App.jsx): the   *)
(* React component App, its four pieces of state, its handlers             *)
(* fetchProducts, addProduct, checkPrice and deleteProduct, the HTTP       *)
(* exchanges they start, and what the component renders from its state.    *)
(*                                                                         *)
(* The specifications share the variables:                                 *)
(*   Spec        the component against a server and a network that answer  *)
(*               in any order and with any outcome;                        *)
(*   SpecRender  the component's rendering and message formatting, fed     *)
(*               with every JSON payload of a bounded shape;               *)
(*   SpecLive    the component over an empty store, where every request    *)
(*               gets an outcome and settled promises are resumed;         *)
(*   SpecExtract the extraction engine the server calls for a price, as    *)
(*               the specification describes it (sections 4 and 5).        *)
(***************************************************************************)
EXTENDS Integers, Sequences, FiniteSets, TLC

----------------------------------------------------------------------------
(* Bounds of the model. *)

\* user operations (add, check price, delete) started in one behaviour
MaxOps == 2
\* extraction calls running side by side in SpecExtract
MaxCalls == 2
\* products the server keeps at once
MaxProducts == 2
\* rows of a GET /products payload in SpecRender
MaxRows == 1

----------------------------------------------------------------------------
(* JavaScript values as they arrive in a JSON body: null, an absent field  *)
(* (undefined), a number, a string.  A number is held in hundredths, so    *)
(* Num(12050) is the JavaScript number 120.5; all the prices of the model  *)
(* have at most two decimals.                                              *)

Null == [t |-> "null"]
Undefined == [t |-> "undefined"]
Num(n) == [t |-> "number", v |-> n]
Str(s) == [t |-> "string", s |-> s]

\* ToBoolean: null, undefined, 0 and "" are falsy
Truthy(x) ==
  CASE x.t = "number" -> x.v # 0
    [] x.t = "string" -> x.s # ""
    [] OTHER -> FALSE

\* a || b
OrElse(a, b) == IF Truthy(a) THEN a ELSE b

\* a !== b
StrictNotEqual(a, b) == a # b

\* Number.prototype.toFixed(2) of a number given in hundredths
TwoDigits(n) == IF n < 10 THEN "0" \o ToString(n) ELSE ToString(n)
toFixed2(x) == ToString(x.v \div 100) \o "." \o TwoDigits(x.v % 100)

\* a value interpolated in a template literal: `${x}`
NumberToString(n) ==
  IF n % 100 = 0 THEN ToString(n \div 100)
  ELSE IF n % 10 = 0 THEN ToString(n \div 100) \o "." \o ToString((n % 100) \div 10)
  ELSE ToString(n \div 100) \o "." \o TwoDigits(n % 100)
Template(x) ==
  CASE x.t = "null" -> "null"
    [] x.t = "undefined" -> "undefined"
    [] x.t = "number" -> NumberToString(x.v)
    [] OTHER -> x.s

\* String.prototype.startsWith
startsWith(s, prefix) ==
  Len(s) >= Len(prefix) /\ SubSeq(s, 1, Len(prefix)) = prefix

\* variant: the URL is tested as typed
trimNothing(s) == s
\* String.prototype.trim, on the URLs of the model
trim(s) == IF s \in {"", " ", "  "} THEN "" ELSE s

----------------------------------------------------------------------------
(* getCurrencySymbol, App.jsx lines 5-12. *)

symbols == [USD |-> "$", GBP |-> "£", EUR |-> "€"]

\* variant: every supported code is given the first symbol
getCurrencySymbolAlwaysDollar(currency) ==
  IF currency.t = "string" /\ currency.s \in DOMAIN symbols
  THEN Str(symbols["USD"])
  ELSE currency
\* symbols[currency] || currency.  The argument is a JSON value that is not
\* the name of a property every object inherits.
getCurrencySymbol(currency) ==
  IF currency.t = "string" /\ currency.s \in DOMAIN symbols
  THEN Str(symbols[currency.s])
  ELSE currency

\* The symbol-to-code mapping of the price normaliser (spec, section 4.3).
SymbolToCode(sym) ==
  CASE sym = "$" -> "USD"
    [] sym = "£" -> "GBP"
    [] sym = "€" -> "EUR"
    [] OTHER -> sym

----------------------------------------------------------------------------
(* One row of the tracked-products list, App.jsx lines 170-236. *)

\* variant: the price is tested for truthiness, so 0 counts as no price
CurrentPriceTextFalsyZero(product) ==
  IF product.current_price.t = "number" /\ product.current_price.v # 0
  THEN Template(getCurrencySymbol(product.currency)) \o toFixed2(product.current_price)
  ELSE "N/A"
\* lines 186-188: the current price, or N/A
CurrentPriceText(product) ==
  IF product.current_price # Null /\ product.current_price # Undefined
  THEN Template(getCurrencySymbol(product.currency)) \o toFixed2(product.current_price)
  ELSE "N/A"

\* variant: the original price is not compared with the current one
ShowOriginalUncompared(product) == Truthy(product.original_price)
\* lines 192 and 199: the condition of the struck-through price and of SALE
ShowOriginal(product) ==
  /\ Truthy(product.original_price)
  /\ StrictNotEqual(product.original_price, product.current_price)

\* line 194
OriginalPriceText(product) ==
  Template(getCurrencySymbol(product.currency)) \o toFixed2(product.original_price)

\* the currency as the row shows it (lines 187 and 194)
RowCurrency(product) == getCurrencySymbol(product.currency)

Row(product) ==
  [ id |-> product.id,
    price |-> CurrentPriceText(product),
    struck |-> IF ShowOriginal(product) THEN OriginalPriceText(product) ELSE "",
    hasStruck |-> ShowOriginal(product),
    sale |-> ShowOriginal(product) ]

----------------------------------------------------------------------------
(* The state. *)

VARIABLES
  products,   \* useState([]), line 13: the list as displayed
  newUrl,     \* useState(''), line 14: the text in the URL input
  loading,    \* useState(false), line 15
  message,    \* useState(''), line 16
  net,        \* the HTTP exchanges started by fetch() and not yet settled, oldest first
  db,         \* the server's product list
  started,    \* history: operations that got past their handler's guard
  gets,       \* history: calls of fetchProducts
  clean,      \* history: no exchange has ended in a non-ok response or in a catch
  lastOp,     \* history: the exchange of the operation that completed last
  calls,      \* the server's extraction calls: where each one is, the context it holds
  contexts    \* the browser contexts that are open

vars ==
  <<products, newUrl, loading, message, net, db, started, gets, clean, lastOp,
    calls, contexts>>

\* the state of the extraction engine
extraction == <<calls, contexts>>

ui == <<products, newUrl, loading, message>>

Remove(s, i) == SubSeq(s, 1, i - 1) \o SubSeq(s, i + 1, Len(s))

\* the text the user can type in the URL input
Urls == {"", " ", "https://shop/shirt"}

NoData == [currency |-> Null, new_price |-> Null, name |-> Null]

\* fetch(...): a request on its way to the server
Request(kind, pid, name, url) ==
  [ kind |-> kind, pid |-> pid, name |-> name, url |-> url,
    stage |-> "sent", ok |-> FALSE, parses |-> FALSE,
    list |-> <<>>, data |-> NoData, detail |-> Undefined ]

\* the same exchange once the server has answered it
Answer(e, ok, parses, list, data, detail) ==
  [e EXCEPT !.stage = "answered", !.ok = ok, !.parses = parses,
            !.list = list, !.data = data, !.detail = detail]

\* fetch() has rejected: the request or its response was lost
Rejected(e) ==
  [e EXCEPT !.stage = "rejected", !.ok = FALSE, !.parses = FALSE,
            !.list = <<>>, !.data = NoData, !.detail = Undefined]

\* the awaited promise has settled and the handler can go on
Settled(e) == e.stage \in {"answered", "rejected"}

Mutating(e) == e.kind \in {"add", "check", "delete"}

InFlight == {i \in DOMAIN net : Mutating(net[i])}

----------------------------------------------------------------------------
(* What the rendered controls allow, App.jsx lines 133-150 and 211-233. *)

\* line 139: the URL input
UrlInputDisabled == loading
\* line 143: the Add Product button
AddButtonDisabled == loading \/ trim(newUrl) = ""
\* variant: the Check Price buttons lack disabled={loading}
CheckButtonNeverDisabled == FALSE
\* line 214: every Check Price button
CheckButtonDisabled == loading
\* line 224: every delete button
DeleteButtonDisabled == loading
\* lines 154-158: the banner is shown for a non-empty message, red for an error
BannerShown == message # ""
BannerErrorStyle == BannerShown /\ startsWith(message, "Error")

----------------------------------------------------------------------------
(* fetchProducts, App.jsx lines 24-34. *)

\* line 26: the call sends GET /products
fetchProductsCall(n) == Append(n, Request("GET", 0, "", ""))

\* lines 27-33: the response is ok and its body parses, and setProducts runs;
\* otherwise nothing is set (a non-ok response is ignored, a throw is logged)
fetchProductsSettle(i) ==
  LET e == net[i] IN
  /\ e.kind = "GET"
  /\ Settled(e)
  /\ IF e.stage = "answered" /\ e.ok /\ e.parses
     THEN products' = e.list /\ clean' = clean
     ELSE products' = products /\ clean' = FALSE
  /\ net' = Remove(net, i)
  /\ UNCHANGED <<newUrl, loading, message, db, started, gets, lastOp, extraction>>

----------------------------------------------------------------------------
(* What the three operations share: try { fetch; if (response.ok) ... else  *)
(* ... } catch ...; setLoading(false).                                      *)

\* the branch an add or a delete ends in (lines 52-63, 107-117): the body is
\* read only when the response is not ok
Branch(e) ==
  IF e.stage = "rejected" THEN "catch"
  ELSE IF e.ok THEN "ok"
  ELSE IF e.parses THEN "else"
  ELSE "catch"

\* the branch a check-price ends in (lines 77-89): the body is read either way
checkPriceBranch(e) ==
  IF e.stage = "rejected" \/ ~e.parses THEN "catch"
  ELSE IF e.ok THEN "ok"
  ELSE "else"

\* lines 58, 84, 112
ErrorDetailMessage(e) == "Error: " \o Template(e.detail)

\* variant: the catch block sends the request again
CatchNetRetry(e, rest) == Append(rest, Request(e.kind, e.pid, e.name, e.url))
\* what a catch block sends: nothing (lines 60-63, 86-89, 114-117)
CatchNet(e, rest) == rest

\* the requests in flight after an operation's response was handled: only
\* the ok branch calls fetchProducts (lines 55, 81, 109)
NetAfter(branch, e, rest) ==
  CASE branch = "ok" -> fetchProductsCall(rest)
    [] branch = "else" -> rest
    [] OTHER -> CatchNet(e, rest)

GetsAfter(branch) == IF branch = "ok" THEN gets + 1 ELSE gets

Completed(e) == [n |-> lastOp.n + 1, e |-> e]

\* variant: the banner of the previous operation is left standing
MessageKept == message
\* lines 41, 70, 100: setMessage('') as an operation starts
MessageAtStart == ""

\* variant: setLoading(false) inside the try block, skipped by a throw
LoadingAfterTry(branch) == IF branch = "catch" THEN loading ELSE FALSE
\* lines 65, 91, 119: setLoading(false) follows the try/catch, whatever its branch
LoadingAfter(branch) == FALSE

----------------------------------------------------------------------------
(* addProduct, App.jsx lines 36-66. *)

\* variant: the catch block's sentence does not start with Error
addProductMessagePlain(e, branch) ==
  CASE branch = "ok" -> "Product added successfully!"
    [] branch = "else" -> ErrorDetailMessage(e)
    [] OTHER -> "Failed to add product"
\* lines 53, 58, 61
addProductMessage(e, branch) ==
  CASE branch = "ok" -> "Product added successfully!"
    [] branch = "else" -> ErrorDetailMessage(e)
    [] OTHER -> "Error adding product"

\* variant: the input is emptied whatever the outcome
addProductNewUrlAlwaysCleared(branch) == ""
\* line 54: setNewUrl('') in the ok branch only
addProductNewUrl(branch) == IF branch = "ok" THEN "" ELSE newUrl

\* lines 36-50: the form is submitted
addProduct ==
  /\ ~UrlInputDisabled
  /\ IF trim(newUrl) = ""
     THEN UNCHANGED vars
     ELSE /\ started < MaxOps
          /\ loading' = TRUE
          /\ message' = MessageAtStart
          /\ net' = Append(net, Request("add", 0, "", newUrl))
          /\ started' = started + 1
          /\ UNCHANGED <<products, newUrl, db, gets, clean, lastOp, extraction>>

\* lines 52-65: the request has settled
addProductSettle(i) ==
  LET e == net[i]
      branch == Branch(e) IN
  /\ e.kind = "add"
  /\ Settled(e)
  /\ message' = addProductMessage(e, branch)
  /\ newUrl' = addProductNewUrl(branch)
  /\ net' = NetAfter(branch, e, Remove(net, i))
  /\ gets' = GetsAfter(branch)
  /\ clean' = (clean /\ branch = "ok")
  /\ loading' = LoadingAfter(branch)
  /\ lastOp' = Completed(e)
  /\ UNCHANGED <<products, db, started, extraction>>

----------------------------------------------------------------------------
(* checkPrice, App.jsx lines 68-92. *)

\* line 79
PriceUpdateCurrency(data) == getCurrencySymbol(OrElse(data.currency, Str("GBP")))

\* line 80
PriceUpdatedMessage(data) ==
  "Price updated: " \o Template(PriceUpdateCurrency(data))
    \o Template(data.new_price) \o " for " \o Template(data.name)

\* lines 80, 84, 87
checkPriceMessage(e, branch) ==
  CASE branch = "ok" -> PriceUpdatedMessage(e.data)
    [] branch = "else" -> ErrorDetailMessage(e)
    [] OTHER -> "Error checking price"

\* lines 68-75 and 213: a Check Price button is clicked
checkPrice(productId) ==
  /\ ~CheckButtonDisabled
  /\ started < MaxOps
  /\ loading' = TRUE
  /\ message' = MessageAtStart
  /\ net' = Append(net, Request("check", productId, "", ""))
  /\ started' = started + 1
  /\ UNCHANGED <<products, newUrl, db, gets, clean, lastOp, extraction>>

\* lines 77-91: the request has settled
checkPriceSettle(i) ==
  LET e == net[i]
      branch == checkPriceBranch(e) IN
  /\ e.kind = "check"
  /\ Settled(e)
  /\ message' = checkPriceMessage(e, branch)
  /\ net' = NetAfter(branch, e, Remove(net, i))
  /\ gets' = GetsAfter(branch)
  /\ clean' = (clean /\ branch = "ok")
  /\ loading' = LoadingAfter(branch)
  /\ lastOp' = Completed(e)
  /\ UNCHANGED <<products, newUrl, db, started, extraction>>

----------------------------------------------------------------------------
(* deleteProduct, App.jsx lines 94-120. *)

\* lines 108, 112, 115
deleteProductMessage(e, branch) ==
  CASE branch = "ok" -> "Stopped tracking \"" \o e.name \o "\""
    [] branch = "else" -> ErrorDetailMessage(e)
    [] OTHER -> "Error deleting product"

\* lines 94-105 and 223: a delete button is clicked and confirm() answers
deleteProduct(productId, productName, confirmed) ==
  /\ ~DeleteButtonDisabled
  /\ IF ~confirmed
     THEN UNCHANGED vars
     ELSE /\ started < MaxOps
          /\ loading' = TRUE
          /\ message' = MessageAtStart
          /\ net' = Append(net, Request("delete", productId, Template(productName), ""))
          /\ started' = started + 1
          /\ UNCHANGED <<products, newUrl, db, gets, clean, lastOp, extraction>>

\* lines 107-119: the request has settled
deleteProductSettle(i) ==
  LET e == net[i]
      branch == Branch(e) IN
  /\ e.kind = "delete"
  /\ Settled(e)
  /\ message' = deleteProductMessage(e, branch)
  /\ net' = NetAfter(branch, e, Remove(net, i))
  /\ gets' = GetsAfter(branch)
  /\ clean' = (clean /\ branch = "ok")
  /\ loading' = LoadingAfter(branch)
  /\ lastOp' = Completed(e)
  /\ UNCHANGED <<products, newUrl, db, started, extraction>>

----------------------------------------------------------------------------
(* The URL input, App.jsx lines 133-140. *)

\* line 136: onChange
setNewUrl(u) ==
  /\ ~UrlInputDisabled
  /\ u # newUrl
  /\ newUrl' = u
  /\ UNCHANGED <<products, loading, message, net, db, started, gets, clean, lastOp, extraction>>

----------------------------------------------------------------------------
(* The server behind API_BASE (line 18): GET /products, POST /products,    *)
(* POST /products/{id}/check-price, DELETE /products/{id}.  It answers one *)
(* request at a time, in any order.                                        *)

FullPrice == Num(8000)
ServerPrices == {Num(8000), Num(6000)}

Ids(list) == {list[k].id : k \in DOMAIN list}
NextId == IF db = <<>> THEN 1 ELSE 1 + CHOOSE m \in Ids(db) : \A x \in Ids(db) : x <= m

NewProduct(id, url) ==
  [ id |-> id, name |-> Str("Shirt"), url |-> Str(url),
    current_price |-> FullPrice, original_price |-> Null, currency |-> Str("GBP") ]

Repriced(p, price) ==
  [p EXCEPT !.current_price = price,
            !.original_price = IF price.v < FullPrice.v THEN FullPrice ELSE Null]

Sent(i) == net[i].stage = "sent"

\* GET /products: the list, in a body that parses or not
serverList(i) ==
  /\ Sent(i) /\ net[i].kind = "GET"
  /\ \E parses \in BOOLEAN :
       net' = [net EXCEPT ![i] = Answer(@, TRUE, parses, IF parses THEN db ELSE <<>>, NoData, Undefined)]
  /\ UNCHANGED <<ui, db, started, gets, clean, lastOp, extraction>>

\* POST /products: the product is added
serverAdd(i) ==
  /\ Sent(i) /\ net[i].kind = "add"
  /\ Len(db) < MaxProducts
  /\ db' = Append(db, NewProduct(NextId, net[i].url))
  /\ net' = [net EXCEPT ![i] = Answer(@, TRUE, TRUE, <<>>, NoData, Undefined)]
  /\ UNCHANGED <<ui, started, gets, clean, lastOp, extraction>>

\* POST /products/{id}/check-price: the price is extracted and stored
serverCheck(i) ==
  /\ Sent(i) /\ net[i].kind = "check"
  /\ \E k \in DOMAIN db, price \in ServerPrices, parses \in BOOLEAN :
       /\ db[k].id = net[i].pid
       /\ db' = [db EXCEPT ![k] = Repriced(@, price)]
       /\ net' = [net EXCEPT ![i] =
            Answer(@, TRUE, parses, <<>>,
                   IF parses
                   THEN [currency |-> db[k].currency, new_price |-> price, name |-> db[k].name]
                   ELSE NoData,
                   Undefined)]
  /\ UNCHANGED <<ui, started, gets, clean, lastOp, extraction>>

\* DELETE /products/{id}: the product is removed
serverDelete(i) ==
  /\ Sent(i) /\ net[i].kind = "delete"
  /\ \E k \in DOMAIN db :
       /\ db[k].id = net[i].pid
       /\ db' = Remove(db, k)
  /\ net' = [net EXCEPT ![i] = Answer(@, TRUE, TRUE, <<>>, NoData, Undefined)]
  /\ UNCHANGED <<ui, started, gets, clean, lastOp, extraction>>

\* any request refused: a non-ok status, with a JSON body {detail} or with
\* a body that is no JSON
serverRefuse(i) ==
  /\ Sent(i)
  /\ \E parses \in BOOLEAN :
       net' = [net EXCEPT ![i] =
         Answer(@, FALSE, parses, <<>>, NoData,
                IF parses THEN Str("Product not found") ELSE Undefined)]
  /\ UNCHANGED <<ui, db, started, gets, clean, lastOp, extraction>>

\* the network fails: fetch() rejects, before or after the server acted
netFail(i) ==
  /\ ~Settled(net[i]) \/ net[i].stage = "answered"
  /\ net' = [net EXCEPT ![i] = Rejected(@)]
  /\ UNCHANGED <<ui, db, started, gets, clean, lastOp, extraction>>

----------------------------------------------------------------------------
(* The extraction engine (spec sections 4.1-4.4 and 5): extractPrice(url)  *)
(* opens a browser context of its own, fetches and parses the page inside  *)
(* that scope, normalises the candidates, and returns a snapshot or a      *)
(* typed failure.  A call can be cancelled while it runs.                  *)

CallIds == 1..MaxCalls

\* a call that has not been made, and the calls before any is made
IdleCall == [pc |-> "idle", ctx |-> 0, result |-> "none"]
NoCalls == [c \in CallIds |-> IdleCall]

FetchErrors == {"Timeout", "Unreachable", "BlockedOrChallenged"}

\* 4.1: an isolated browser context per call
FreshContext == CHOOSE n \in 1..(MaxCalls + 1) : n \notin contexts

\* variant: the scope is left without closing the context
ReleaseNothing(c) == contexts
\* 4.1: leaving the scope closes the context the call holds, on every exit path
Release(c) == contexts \ {calls[c].ctx}

\* the call leaves the scope of its context and goes on at pc with result
LeaveScope(c, pc, result) ==
  /\ contexts' = Release(c)
  /\ calls' = [calls EXCEPT ![c] = [pc |-> pc, ctx |-> 0, result |-> result]]

\* 4.4: extractPrice(url) starts and acquires its context
extractPrice(c) ==
  /\ calls[c].pc = "idle"
  /\ LET ctx == FreshContext IN
       /\ contexts' = contexts \cup {ctx}
       /\ calls' = [calls EXCEPT ![c] = [pc |-> "fetching", ctx |-> ctx, result |-> "none"]]
  /\ UNCHANGED <<ui, net, db, started, gets, clean, lastOp>>

\* 4.1: the page is rendered and the parser takes over inside the scope
fetchDocument(c) ==
  /\ calls[c].pc = "fetching"
  /\ calls' = [calls EXCEPT ![c].pc = "parsing"]
  /\ UNCHANGED <<ui, net, db, started, gets, clean, lastOp, contexts>>

\* 4.1: navigation fails, times out or meets a challenge page
fetchError(c, kind) ==
  /\ calls[c].pc = "fetching"
  /\ LeaveScope(c, "ended", kind)
  /\ UNCHANGED <<ui, net, db, started, gets, clean, lastOp>>

\* 4.2: the parser finds candidates, or none
parse(c, found) ==
  /\ calls[c].pc = "parsing"
  /\ IF found
     THEN LeaveScope(c, "normalizing", "none")
     ELSE LeaveScope(c, "ended", "NoPriceFound")
  /\ UNCHANGED <<ui, net, db, started, gets, clean, lastOp>>

\* 4.3: the candidates are normalised to a snapshot, or rejected
normalize(c, plausible) ==
  /\ calls[c].pc = "normalizing"
  /\ calls' = [calls EXCEPT ![c] =
       [pc |-> "ended", ctx |-> 0,
        result |-> IF plausible THEN "PriceSnapshot" ELSE "ImplausiblePrice"]]
  /\ UNCHANGED <<ui, net, db, started, gets, clean, lastOp, contexts>>

\* 5: the caller cancels a call that is running
cancel(c) ==
  /\ calls[c].pc \in {"fetching", "parsing", "normalizing"}
  /\ LeaveScope(c, "ended", "Cancelled")
  /\ UNCHANGED <<ui, net, db, started, gets, clean, lastOp>>

----------------------------------------------------------------------------
(* The specification of the component with its server. *)

NoOp == [n |-> 0, e |-> Request("none", 0, "", "")]

\* what the server holds when the page is opened
InitialDbs == {<<>>, <<NewProduct(1, "https://shop/shirt")>>}

\* the component is mounted and its effect (lines 20-22) has called fetchProducts
Init ==
  /\ products = <<>>
  /\ newUrl = ""
  /\ loading = FALSE
  /\ message = ""
  /\ net = fetchProductsCall(<<>>)
  /\ db \in InitialDbs
  /\ started = 0
  /\ gets = 1
  /\ clean = TRUE
  /\ lastOp = NoOp
  /\ calls = NoCalls
  /\ contexts = {}

Next ==
  \/ \E u \in Urls : setNewUrl(u)
  \/ addProduct
  \/ \E k \in DOMAIN products : checkPrice(products[k].id)
  \/ \E k \in DOMAIN products, confirmed \in BOOLEAN :
       deleteProduct(products[k].id, products[k].name, confirmed)
  \/ \E i \in DOMAIN net : fetchProductsSettle(i)
  \/ \E i \in DOMAIN net : addProductSettle(i)
  \/ \E i \in DOMAIN net : checkPriceSettle(i)
  \/ \E i \in DOMAIN net : deleteProductSettle(i)
  \/ \E i \in DOMAIN net : serverList(i)
  \/ \E i \in DOMAIN net : serverAdd(i)
  \/ \E i \in DOMAIN net : serverCheck(i)
  \/ \E i \in DOMAIN net : serverDelete(i)
  \/ \E i \in DOMAIN net : serverRefuse(i)
  \/ \E i \in DOMAIN net : netFail(i)

Spec == Init /\ [][Next]_vars

\* Every request gets an outcome: the server answers it or fetch rejects.
Resolve ==
  \E i \in DOMAIN net :
    \/ serverList(i)
    \/ serverAdd(i)
    \/ serverCheck(i)
    \/ serverDelete(i)
    \/ serverRefuse(i)
    \/ netFail(i)

\* The event loop resumes a handler whose awaited promise has settled.
Resume ==
  \E i \in DOMAIN net :
    \/ fetchProductsSettle(i)
    \/ addProductSettle(i)
    \/ checkPriceSettle(i)
    \/ deleteProductSettle(i)

\* the component mounted over a store that tracks nothing yet
InitEmpty == Init /\ db = <<>>

\* The component with its server, where requests get outcomes and settled
\* promises are resumed; the user is under no obligation to act.
SpecLive == InitEmpty /\ [][Next]_vars /\ WF_vars(Resolve) /\ WF_vars(Resume)

----------------------------------------------------------------------------
(* The specification of rendering: one answered exchange carrying any      *)
(* payload of the bounded shape, handled by the component.                 *)

PriceValues == {Null, Undefined, Num(0), Num(5000), Num(8000)}
Codes == {"USD", "GBP", "EUR", "JPY", "CHF"}
CurrencyValues == {Null, Undefined, Str(""), Str("$")} \cup {Str(c) : c \in Codes}

ProductPayloads ==
  [ id : {1}, name : {Str("Shirt")}, url : {Str("https://shop/shirt")},
    current_price : PriceValues, original_price : PriceValues,
    currency : CurrencyValues ]

ListPayloads == UNION {[1..n -> ProductPayloads] : n \in 0..MaxRows}

PriceUpdatePayloads ==
  [ currency : CurrencyValues, new_price : {Num(8000), Num(12050)}, name : {Str("Shirt")} ]

InitRender ==
  /\ products = <<>>
  /\ newUrl = ""
  /\ message = ""
  /\ db = <<>>
  /\ gets = 1
  /\ clean = TRUE
  /\ lastOp = NoOp
  /\ calls = NoCalls
  /\ contexts = {}
  /\ \/ /\ loading = FALSE
        /\ started = 0
        /\ \E list \in ListPayloads :
             net = <<Answer(Request("GET", 0, "", ""), TRUE, TRUE, list, NoData, Undefined)>>
     \/ /\ loading = TRUE
        /\ started = 1
        /\ \E data \in PriceUpdatePayloads :
             net = <<Answer(Request("check", 1, "", ""), TRUE, TRUE, <<>>, data, Undefined)>>

NextRender ==
  \/ \E i \in DOMAIN net : fetchProductsSettle(i)
  \/ \E i \in DOMAIN net : checkPriceSettle(i)

SpecRender == InitRender /\ [][NextRender]_vars

----------------------------------------------------------------------------
(* Properties of the rendered list, checked under SpecRender.              *)

IsNumber(x) == x.t = "number"

\* the rows the list shows (lines 166-170)
Rows == {products[k] : k \in DOMAIN products}

\* C1: a row carries the SALE badge and the struck-through original price
\* if and only if original_price is a number strictly greater than
\* current_price; stated for the rows whose current price is a number.
C1_SaleIffOriginalGreater ==
  \A p \in Rows :
    IsNumber(p.current_price) =>
      /\ Row(p).sale = Row(p).hasStruck
      /\ Row(p).sale <=>
           (IsNumber(p.original_price) /\ p.original_price.v > p.current_price.v)

\* C2: a row whose original_price equals its current_price shows one price:
\* no struck-through price and no SALE badge.
C2_EqualPricesCollapse ==
  \A p \in Rows :
    p.original_price = p.current_price =>
      /\ ~Row(p).hasStruck
      /\ Row(p).struck = ""
      /\ ~Row(p).sale

C2_Witness ==
  \E p \in Rows :
    /\ p.original_price = Num(8000)
    /\ p.current_price = Num(8000)
    /\ p.currency = Str("GBP")
    /\ Row(p) = [id |-> 1, price |-> "£80.00", struck |-> "", hasStruck |-> FALSE, sale |-> FALSE]

\* the falsy currencies: null, an absent field, the empty string
MissingCurrency(c) == c \in {Null, Undefined, Str("")}

\* the text a currency must be shown as: GBP's symbol when it is missing,
\* the symbol of a supported code, the code itself otherwise
ExpectedCurrencyText(c) ==
  IF MissingCurrency(c) THEN "£"
  ELSE IF c = Str("USD") THEN "$"
  ELSE IF c = Str("GBP") THEN "£"
  ELSE IF c = Str("EUR") THEN "€"
  ELSE c.s

\* C3: the currency shown with a price is never empty, "null" or
\* "undefined": in every row with a price, and in the message of a
\* completed price check, a missing currency is shown as the default (GBP)
\* and any other as its symbol or its code.
C3_CurrencyNeverMissing ==
  /\ \A p \in Rows :
       IsNumber(p.current_price) =>
         /\ Template(RowCurrency(p)) \notin {"", "null", "undefined"}
         /\ Template(RowCurrency(p)) = ExpectedCurrencyText(p.currency)
  /\ (lastOp.n > 0 /\ lastOp.e.kind = "check" /\ lastOp.e.stage = "answered"
        /\ lastOp.e.ok /\ lastOp.e.parses) =>
       message = "Price updated: " \o ExpectedCurrencyText(lastOp.e.data.currency)
                   \o Template(lastOp.e.data.new_price) \o " for "
                   \o Template(lastOp.e.data.name)

\* C4: on the currency codes, getCurrencySymbol inverts the symbol-to-code
\* mapping: USD, GBP and EUR are shown as $, £ and €, every other code as
\* itself, and the text shown maps back to the code it came from, so two
\* codes are never shown alike.
C4_SymbolInvertsCode ==
  \A p \in Rows :
    (p.currency.t = "string" /\ p.currency.s \in Codes) =>
      LET shown == Template(RowCurrency(p)) IN
      /\ p.currency.s = "USD" => shown = "$"
      /\ p.currency.s = "GBP" => shown = "£"
      /\ p.currency.s = "EUR" => shown = "€"
      /\ p.currency.s \notin {"USD", "GBP", "EUR"} => shown = p.currency.s
      /\ SymbolToCode(shown) = p.currency.s
      /\ \A c \in Codes : Template(getCurrencySymbol(Str(c))) = shown => c = p.currency.s

C4_Witness ==
  \E p \in Rows :
    /\ p.currency = Str("EUR")
    /\ p.current_price = Num(5000)
    /\ Row(p).price = "€50.00"

\* the two-decimal text of the amounts of the model
AmountText(x) ==
  CASE x = Num(0) -> "0.00"
    [] x = Num(5000) -> "50.00"
    [] x = Num(8000) -> "80.00"

\* C5: a row whose current_price is null or absent shows N/A, never an
\* amount; a row whose current_price is a number, 0 included, shows the
\* currency followed by the amount with two decimals.
C5_NoPriceIsNotZero ==
  \A p \in Rows :
    /\ p.current_price \in {Null, Undefined} => Row(p).price = "N/A"
    /\ IsNumber(p.current_price) =>
         /\ Row(p).price = Template(RowCurrency(p)) \o AmountText(p.current_price)
         /\ Row(p).price # "N/A"

C5_Witness ==
  \E p \in Rows :
    /\ p.current_price = Num(0)
    /\ p.currency = Str("USD")
    /\ Row(p).price = "$0.00"

----------------------------------------------------------------------------
(* Properties of the operations, checked under Spec.                       *)

\* an operation completes in this step; lastOp' holds its exchange
Completes == lastOp'.n = lastOp.n + 1

\* the fixed sentence of each operation's catch block
FixedSentence(kind) ==
  CASE kind = "add" -> "Error adding product"
    [] kind = "check" -> "Error checking price"
    [] kind = "delete" -> "Error deleting product"

Threw(e) == e.stage = "rejected"

\* a GET was sent in this step and nothing else was
RefreshIssued ==
  /\ gets' = gets + 1
  /\ Len(net') = Len(net)
  /\ net'[Len(net')] = Request("GET", 0, "", "")

NoRefreshIssued ==
  /\ gets' = gets
  /\ Len(net') = Len(net) - 1

\* C6 as claimed: the message an operation ends with follows the response
\* alone: a success message and a refresh when it is ok, "Error: " and the
\* detail when it is not ok, the fixed sentence when the request threw; and
\* it has the error style exactly when the operation failed.
C6_MessageFollowsResponse ==
  [][Completes =>
       LET e == lastOp'.e IN
       /\ message = "" /\ message' # ""
       /\ (~Threw(e) /\ e.ok) => (~startsWith(message', "Error") /\ RefreshIssued)
       /\ (~Threw(e) /\ ~e.ok) => message' = "Error: " \o Template(e.detail)
       /\ Threw(e) => message' = FixedSentence(e.kind)
       /\ BannerErrorStyle' <=> (Threw(e) \/ ~e.ok)
    ]_vars

\* the operation's handler reached the end of its ok branch
Succeeded(e) == ~Threw(e) /\ e.ok /\ (e.kind = "check" => e.parses)
\* the handler read the detail of a non-ok response
Refused(e) == ~Threw(e) /\ ~e.ok /\ e.parses
\* the request threw, or the body the handler read was no JSON
Caught(e) == Threw(e) \/ (~e.parses /\ (e.kind = "check" \/ ~e.ok))

\* C6 as amended: an operation ends with one message: a success message and
\* a refresh when the response is ok and (for a price check) its body
\* parses; "Error: " and the detail when the response is not ok and its
\* body parses; the operation's fixed sentence, and no refresh, when the
\* request threw or the body read did not parse.  The message has the error
\* style exactly when the operation did not succeed.
C6_MessageFollowsOutcome ==
  [][Completes =>
       LET e == lastOp'.e IN
       /\ message = "" /\ message' # ""
       /\ Succeeded(e) => (~startsWith(message', "Error") /\ RefreshIssued)
       /\ Refused(e) => (message' = "Error: " \o Template(e.detail) /\ NoRefreshIssued)
       /\ Caught(e) => (message' = FixedSentence(e.kind) /\ NoRefreshIssued)
       /\ BannerErrorStyle' <=> ~Succeeded(e)
    ]_vars

C6_Witness ==
  /\ lastOp.n > 0
  /\ lastOp.e.kind = "check"
  /\ lastOp.e.stage = "answered" /\ lastOp.e.ok /\ ~lastOp.e.parses
  /\ message = "Error checking price"
  /\ BannerErrorStyle
  /\ ~loading

\* a list response that fetchProducts applies: ok, with a body that parses
ListApplied(e) == e.kind = "GET" /\ e.stage = "answered" /\ e.ok /\ e.parses

\* the user edits the URL input and nothing else happens
UserTyped == UNCHANGED <<products, loading, message, net, db, started, gets, clean, lastOp, extraction>>

\* C7: a failure changes nothing else.  An operation that ends in a non-ok
\* response or in a catch leaves the displayed list as it was, sends no
\* refresh, re-enables the controls and, for an add, leaves the submitted
\* URL in the input; a list fetch that fails leaves the displayed list as it
\* was; and the input is emptied by the component only when an add succeeds.
C7_FailureChangesNothingElse ==
  [][/\ (Completes /\ ~Succeeded(lastOp'.e)) =>
          /\ products' = products
          /\ NoRefreshIssued
          /\ newUrl' = newUrl
          /\ lastOp'.e.kind = "add" => newUrl' = lastOp'.e.url
          /\ ~loading'
          /\ ~CheckButtonDisabled' /\ ~DeleteButtonDisabled' /\ ~UrlInputDisabled'
     /\ \A i \in DOMAIN net :
          (net[i].kind = "GET" /\ net' = Remove(net, i) /\ ~ListApplied(net[i])) =>
            products' = products
     /\ products' # products =>
          \E i \in DOMAIN net :
            ListApplied(net[i]) /\ net' = Remove(net, i) /\ products' = net[i].list
     /\ newUrl' # newUrl =>
          \/ UserTyped
          \/ Completes /\ lastOp'.e.kind = "add" /\ Succeeded(lastOp'.e) /\ newUrl' = ""
    ]_vars

C7_Witness ==
  /\ lastOp.n > 0
  /\ lastOp.e.kind = "add"
  /\ ~Succeeded(lastOp.e)
  /\ newUrl = "https://shop/shirt"
  /\ products # <<>>
  /\ startsWith(message, "Error")
  /\ ~loading

\* C8: at most one add, check-price or delete request is in flight; while
\* one is, loading is true and the URL input, the Add Product button and
\* every Check Price and delete button are disabled.
C8_OneOperationInFlight ==
  /\ Cardinality(InFlight) <= 1
  /\ InFlight # {} =>
       /\ loading
       /\ UrlInputDisabled /\ AddButtonDisabled
       /\ CheckButtonDisabled /\ DeleteButtonDisabled
  /\ \A i \in InFlight, j \in InFlight :
       (net[i].kind = "check" /\ net[j].kind = "check" /\ net[i].pid = net[j].pid) => i = j

C8_Witness ==
  /\ \E i \in InFlight : net[i].kind = "check" /\ net[i].stage = "answered"
  /\ \E j \in DOMAIN net : net[j].kind = "GET"
  /\ lastOp.n = 1
  /\ loading

\* C9: every operation the user started has sent exactly one request, which
\* is in flight or has completed; a request is sent only in the step that
\* starts an operation; and an operation that fails ends at once with an
\* error message and nothing re-sent.
C9_NoRetry ==
  [][/\ started' = lastOp'.n + Cardinality(InFlight')
     /\ started' \in {started, started + 1}
     /\ Cardinality(InFlight') > Cardinality(InFlight) => started' = started + 1
     /\ (Completes /\ ~Succeeded(lastOp'.e)) =>
          /\ startsWith(message', "Error")
          /\ InFlight' = {}
          /\ started' = started
    ]_vars

C9_Witness ==
  /\ started = MaxOps
  /\ lastOp.n = MaxOps
  /\ ~Succeeded(lastOp.e)
  /\ lastOp.e.stage = "rejected"
  /\ InFlight = {}
  /\ message = "Error deleting product"

\* C10: once no request is outstanding, the displayed list is the server's
\* list, whatever the order in which the responses arrived; stated for the
\* behaviours in which no exchange failed.
C10_ListEqualsServerAtRest ==
  (net = <<>> /\ clean) => products = db

----------------------------------------------------------------------------
(* The specification of the extraction engine: calls made side by side.    *)

InitExtract ==
  /\ products = <<>>
  /\ newUrl = ""
  /\ loading = FALSE
  /\ message = ""
  /\ net = <<>>
  /\ db = <<>>
  /\ started = 0
  /\ gets = 0
  /\ clean = TRUE
  /\ lastOp = NoOp
  /\ calls = NoCalls
  /\ contexts = {}

NextExtract ==
  \/ \E c \in CallIds : extractPrice(c)
  \/ \E c \in CallIds : fetchDocument(c)
  \/ \E c \in CallIds, kind \in FetchErrors : fetchError(c, kind)
  \/ \E c \in CallIds, found \in BOOLEAN : parse(c, found)
  \/ \E c \in CallIds, plausible \in BOOLEAN : normalize(c, plausible)
  \/ \E c \in CallIds : cancel(c)

SpecExtract == InitExtract /\ [][NextExtract]_vars

Running(c) == calls[c].pc \in {"fetching", "parsing", "normalizing"}
Ended(c) == calls[c].pc = "ended"

\* C11: an extraction call that has ended, by a snapshot, a fetch failure,
\* a timeout, a parse or validation failure or a cancellation, holds no
\* browser context; every open context is held by a call that is running
\* inside its scope; and no two calls hold the same context.
C11_ContextsReleased ==
  /\ \A c \in CallIds : Ended(c) => calls[c].ctx = 0
  /\ \A c \in CallIds : calls[c].ctx # 0 => Running(c)
  /\ contexts = {calls[c].ctx : c \in {d \in CallIds : calls[d].ctx # 0}}
  /\ \A c \in CallIds, d \in CallIds :
       (calls[c].ctx # 0 /\ calls[c].ctx = calls[d].ctx) => c = d

C11_Witness ==
  \E c \in CallIds, d \in CallIds :
    /\ calls[c].result = "Cancelled" /\ Ended(c)
    /\ calls[d].pc = "fetching" /\ calls[d].ctx # 0
    /\ contexts = {calls[d].ctx}

\* C12: loading is true exactly while an add, check-price or delete is
\* between its start and its completion (a list refresh in flight does not
\* count), and whenever loading is true it eventually becomes false again.
C12_LoadingEnds ==
  /\ [](loading <=> InFlight # {})
  /\ loading ~> ~loading

\* an operation has completed and its follow-up refresh is still in flight
C12_Witness ==
  /\ lastOp.n > 0
  /\ ~loading
  /\ \E i \in DOMAIN net : net[i].kind = "GET" /\ net[i].stage = "sent"

\* the sentence of each operation's ok branch
SuccessSentence(e) ==
  CASE e.kind = "add" -> "Product added successfully!"
    [] e.kind = "check" -> PriceUpdatedMessage(e.data)
    [] e.kind = "delete" -> "Stopped tracking \"" \o e.name \o "\""

\* C13: while loading is true the message is empty, and a message that is
\* shown is the one the operation that completed last ended with: its
\* success sentence, "Error: " and its detail, or its fixed sentence.
C13_NoStaleMessage ==
  /\ loading => message = ""
  /\ message # "" =>
       /\ lastOp.n > 0
       /\ LET e == lastOp.e IN
            /\ Succeeded(e) => message = SuccessSentence(e)
            /\ Refused(e) => message = "Error: " \o Template(e.detail)
            /\ Caught(e) => message = FixedSentence(e.kind)

\* a second operation runs: the banner the first one ended with is gone
C13_Witness ==
  /\ loading
  /\ lastOp.n > 0
  /\ message = ""
  /\ InFlight # {}

\* the text is empty or spaces only
Blank(u) == \A i \in 1..Len(u) : SubSeq(u, i, i) = " "

\* the form is submitted with a blank URL
RejectedSubmit == Blank(newUrl) /\ addProduct

\* a delete button is clicked and the confirmation is declined
DeclinedDelete ==
  \E k \in DOMAIN products : deleteProduct(products[k].id, products[k].name, FALSE)

\* C14: submitting the form with an empty or whitespace-only URL, and
\* declining the delete confirmation, send no request and leave products,
\* loading, message and the URL input as they were.
C14_RejectedChangesNothing ==
  [][(RejectedSubmit \/ DeclinedDelete) =>
       UNCHANGED <<products, loading, message, newUrl, net>>
    ]_vars

\* both rejections are on offer where there is something to lose: a
\* whitespace-only URL typed, a product listed, a banner shown, a refresh
\* in flight
C14_Witness ==
  /\ ~UrlInputDisabled
  /\ ~DeleteButtonDisabled
  /\ newUrl = " "
  /\ products # <<>>
  /\ message # ""
  /\ net # <<>>

====
